---- MODULE Spec2Model ----
(***************************************************************************)
(* A model of src/ics_utils.py: the ICS (RFC 5545) invite and cancellation *)
(* builders, their identifier helpers and their text/datetime normalisers. *)
(*                                                                         *)
(* Text is a sequence of symbols.  A symbol is one character ("a", ";",    *)
(* "\r", ...) or one fixed run of characters that holds none of the        *)
(* characters the code inspects (backslash, semicolon, comma, CR, LF,      *)
(* white space) unless the run is a literal of the builders themselves.    *)
(* The alphabets are ASCII, so the UTF-8 bytes of a text are its symbols.  *)
(*                                                                         *)
(* A Python value that may be None is a sequence of length at most one:    *)
(* None is << >> and a present value v is << v >>.                         *)
(***************************************************************************)
EXTENDS Integers, Sequences, FiniteSets, TLC

VARIABLES
    pc,       \* "call": the arguments are chosen; "done": the call returned
    op,       \* the function being called
    args,     \* its arguments
    now,      \* what datetime.now(timezone.utc) reads during the call
    result,   \* what the call returned or raised
    prev      \* the call that returned before this one (op, args, now, result)

vars == <<pc, op, args, now, result, prev>>

----------------------------------------------------------------------------
(* Python values *)

None == << >>

Some(v) == << v >>

IsNone(x) == x = None

Val(x) == x[1]

\* bool(x) for a str, a list or None
Truthy(x) == x # None /\ Val(x) # << >>

\* (x or "") and (x or [])
OrEmpty(x) == IF Truthy(x) THEN Val(x) ELSE << >>

BS == "\\"

LF == "\n"

CR == "\r"

CRLF == <<CR, LF>>

\* the characters str.strip() removes
Whitespace == {" ", "\t", LF, CR, "\f"}

RECURSIVE Replace(_, _, _)
\* s.replace(ch, rep) for a one-character pattern ch
Replace(s, ch, rep) ==
    IF s = << >> THEN << >>
    ELSE (IF Head(s) = ch THEN rep ELSE <<Head(s)>>) \o Replace(Tail(s), ch, rep)

RECURSIVE LStrip(_)
LStrip(s) ==
    IF s # << >> /\ Head(s) \in Whitespace THEN LStrip(Tail(s)) ELSE s

RECURSIVE RStrip(_)
RStrip(s) ==
    IF s # << >> /\ s[Len(s)] \in Whitespace
    THEN RStrip(SubSeq(s, 1, Len(s) - 1))
    ELSE s

\* s.strip()
Strip(s) == RStrip(LStrip(s))

RECURSIVE Join(_, _)
\* sep.join(ls)
Join(sep, ls) ==
    IF ls = << >> THEN << >>
    ELSE IF Len(ls) = 1 THEN Head(ls)
    ELSE Head(ls) \o sep \o Join(sep, Tail(ls))

RECURSIVE Strings(_, _)
\* every text over the alphabet A of length at most n
Strings(A, n) ==
    IF n = 0 THEN { << >> }
    ELSE LET S == Strings(A, n - 1)
         IN  S \cup { <<c>> \o s : c \in A, s \in { t \in S : Len(t) = n - 1 } }

RECURSIVE Count(_, _)
\* s.count(ch)
Count(s, ch) ==
    IF s = << >> THEN 0
    ELSE (IF Head(s) = ch THEN 1 ELSE 0) + Count(Tail(s), ch)

----------------------------------------------------------------------------
(* _escape_ics *)

\* the replacements with the backslash rule applied last
EscapeBackslashLast(text) ==
    IF ~Truthy(text) THEN << >>
    ELSE Replace(Replace(Replace(Replace(Val(text),
             ";", <<BS, ";">>), ",", <<BS, ",">>), LF, <<BS, "n">>), BS, <<BS, BS>>)

_escape_ics(text) ==
    IF ~Truthy(text) THEN << >>
    ELSE Replace(Replace(Replace(Replace(Val(text),
             BS, <<BS, BS>>), ";", <<BS, ";">>), ",", <<BS, ",">>), LF, <<BS, "n">>)

----------------------------------------------------------------------------
(* _format_dt *)

Digits == <<"0", "1", "2", "3", "4", "5", "6", "7", "8", "9">>

\* "%02d" of a number below 100
Two(n) == <<Digits[(n \div 10) + 1], Digits[(n % 10) + 1]>>

RECURSIVE NatToStr(_)
NatToStr(n) ==
    IF n < 10 THEN <<Digits[n + 1]>> ELSE NatToStr(n \div 10) \o <<Digits[(n % 10) + 1]>>

\* str(n) of an int
IntToStr(n) == IF n < 0 THEN <<"-">> \o NatToStr(-n) ELSE NatToStr(n)

\* A datetime of January 2024, in UTC too: [day, hour, minute, second, tzinfo],
\* tzinfo None (naive) or a whole number of hours east of UTC.
DateTime(d, h, m, s, tz) ==
    [day |-> d, hour |-> h, minute |-> m, second |-> s, tzinfo |-> tz]

\* dt.replace(tzinfo=utc) when naive, then dt.astimezone(utc)
ToUTC(dt) ==
    LET off == IF IsNone(dt.tzinfo) THEN 0 ELSE Val(dt.tzinfo)
        h   == dt.hour - off
    IN  IF h < 0 THEN [dt EXCEPT !.day = @ - 1, !.hour = h + 24, !.tzinfo = Some(0)]
        ELSE IF h > 23 THEN [dt EXCEPT !.day = @ + 1, !.hour = h - 24, !.tzinfo = Some(0)]
        ELSE [dt EXCEPT !.hour = h, !.tzinfo = Some(0)]

\* dt.strftime("%Y%m%dT%H%M%SZ") of a UTC datetime
Strftime(dt) ==
    <<"202401">> \o Two(dt.day) \o <<"T">> \o Two(dt.hour) \o Two(dt.minute)
        \o Two(dt.second) \o <<"Z">>

\* _format_dt(dt): [raised, value].  None has no attribute tzinfo.
_format_dt(dt) ==
    IF IsNone(dt) THEN [raised |-> "AttributeError", value |-> << >>]
    ELSE [raised |-> "", value |-> Strftime(ToUTC(Val(dt)))]

----------------------------------------------------------------------------
(* stable_uid *)

DefaultDomain == <<"powerdashhr.com">>

HexDigits == Digits \o <<"a", "b", "c", "d", "e", "f">>

\* the symbols a seed is made of, in the order of their byte values
SeedChars == <<"-", "1", "2", ":", "i", "v">>

ByteOf(c) == CHOOSE i \in 1..Len(SeedChars) : SeedChars[i] = c

RECURSIVE Mix(_, _)
Mix(h, s) == IF s = << >> THEN h ELSE Mix((h * 31 + ByteOf(Head(s))) % 65536, Tail(s))

\* hashlib.md5(seed.encode("utf-8")).hexdigest(): a digest of fixed length
\* over the hexadecimal digits, a function of the bytes of the seed alone
Md5HexDigest(s) ==
    LET h == Mix(7, s)
    IN  <<HexDigits[((h \div 4096) % 16) + 1], HexDigits[((h \div 256) % 16) + 1],
          HexDigits[((h \div 16) % 16) + 1], HexDigits[(h % 16) + 1]>>

\* stable_uid(seed, domain): [raised, message, value]
stable_uid(seed, domain) ==
    IF ~Truthy(seed)
    THEN [raised |-> "ICSValidationError",
          message |-> "stable_uid requires a non-empty seed", value |-> << >>]
    ELSE [raised |-> "", message |-> "",
          value |-> Md5HexDigest(Val(seed)) \o <<"@">> \o domain]

----------------------------------------------------------------------------
(* build_ics_invite *)

Raise(kind, msg) ==
    [status |-> kind, message |-> msg, lines |-> << >>, bytes |-> << >>]

\* "\r\n".join(lines) + "\r\n", encoded
Return(lines) ==
    [status |-> "ok", message |-> "", lines |-> lines,
     bytes |-> Join(CRLF, lines) \o CRLF]

\* the validation without the summary check
InviteValidationNoSummary(a) ==
    IF ~Truthy(a.organizer_email) THEN "Organizer email is required"
    ELSE IF IsNone(a.dtstart_utc) \/ IsNone(a.dtend_utc)
         THEN "Start and end times are required"
    ELSE ""

\* the message of the ICSValidationError build_ics_invite raises, "" if none
InviteValidation(a) ==
    IF ~Truthy(a.organizer_email) THEN "Organizer email is required"
    ELSE IF ~Truthy(a.summary) THEN "Summary is required"
    ELSE IF IsNone(a.dtstart_utc) \/ IsNone(a.dtend_utc)
         THEN "Start and end times are required"
    ELSE ""

\* if uid is None: uid = f"{uuid.uuid4()}@powerdashhr.com"
InviteUid(uid, fresh) ==
    IF IsNone(uid) THEN fresh \o <<"@">> \o DefaultDomain ELSE Val(uid)

\* url = _escape_ics(url or "")
EscapedUrl(a) == _escape_ics(Some(OrEmpty(a.url)))

\* description = _escape_ics(description or ""), and the join link after it
Description(a) ==
    LET description == _escape_ics(Some(OrEmpty(a.description)))
        url         == EscapedUrl(a)
    IN  IF url # << >>
        THEN Strip(description \o <<BS, "n", BS, "n", "Join link: ">> \o url)
        ELSE description

\* f"{x}" of a str or None
Format(x) == IF IsNone(x) THEN <<"N", "o", "n", "e">> ELSE Val(x)

OrganizerLine(a) ==
    <<"ORGANIZER;CN=">> \o _escape_ics(a.organizer_name) \o <<":mailto:">>
        \o Format(a.organizer_email)

\* name = _escape_ics(name or email)
CN(name, email) == _escape_ics(Some(IF Truthy(name) THEN Val(name) ELSE email))

RECURSIVE AttendeeLines(_, _, _)
\* for email, name in attendees: one ATTENDEE line unless the email is empty
AttendeeLines(attendees, role, flags) ==
    IF attendees = << >> THEN << >>
    ELSE LET email == Strip(OrEmpty(Head(attendees)[1]))
             name  == CN(Head(attendees)[2], email)
             rest  == AttendeeLines(Tail(attendees), role, flags)
         IN  IF email = << >> THEN rest
             ELSE << <<"ATTENDEE;CN=">> \o name \o <<";ROLE=", role>> \o flags
                      \o <<":mailto:">> \o email >> \o rest

\* ;PARTSTAT=NEEDS-ACTION;RSVP=TRUE
RsvpFlags == <<";PARTSTAT=NEEDS-ACTION", ";RSVP=TRUE">>

\* the attendee lines of the invite
InviteAttendees(a) ==
    AttendeeLines(OrEmpty(a.required_attendees), "REQ-PARTICIPANT", RsvpFlags)
        \o AttendeeLines(OrEmpty(a.optional_attendees), "OPT-PARTICIPANT", RsvpFlags)

UrlLines(a) == IF EscapedUrl(a) # << >> THEN << <<"URL:">> \o EscapedUrl(a) >> ELSE << >>

VAlarm ==
    << <<"BEGIN:VALARM">>, <<"TRIGGER:-PT15M">>, <<"ACTION:DISPLAY">>,
       <<"DESCRIPTION:Interview Reminder">>, <<"END:VALARM">> >>

\* the lines of the invite, from the identifier and the three timestamps
InviteLines(a, uid, dtstamp, dtstart, dtend) ==
    << <<"BEGIN:VCALENDAR">>,
       <<"PRODID:-//PowerDash HR//Interview Scheduler//EN">>,
       <<"VERSION:2.0">>,
       <<"CALSCALE:GREGORIAN">>,
       <<"METHOD:REQUEST">>,
       <<"BEGIN:VEVENT">>,
       <<"UID:">> \o uid,
       <<"DTSTAMP:">> \o dtstamp,
       <<"DTSTART:">> \o dtstart,
       <<"DTEND:">> \o dtend,
       <<"SUMMARY:">> \o _escape_ics(a.summary),
       <<"DESCRIPTION:">> \o Description(a),
       <<"LOCATION:">> \o _escape_ics(Some(OrEmpty(a.location))),
       <<"STATUS:CONFIRMED">>,
       <<"TRANSP:OPAQUE">>,
       OrganizerLine(a) >>
    \o InviteAttendees(a)
    \o UrlLines(a)
    \o VAlarm
    \o << <<"END:VEVENT">>, <<"END:VCALENDAR">> >>

\* build_ics_invite(**a) when the clock reads clock and uuid4() gives fresh
build_ics_invite(a, clock, fresh) ==
    IF InviteValidation(a) # "" THEN Raise("ICSValidationError", InviteValidation(a))
    ELSE Return(InviteLines(a, InviteUid(a.uid, fresh),
                            _format_dt(Some(clock)).value,
                            _format_dt(a.dtstart_utc).value,
                            _format_dt(a.dtend_utc).value))

----------------------------------------------------------------------------
(* create_ics_from_interview *)

\* the wrapper forgetting the seed
InterviewUidUnseeded(uid_seed) == None

\* uid = None; if uid_seed: uid = stable_uid(uid_seed)
InterviewUid(uid_seed) ==
    IF Truthy(uid_seed) THEN Some(stable_uid(uid_seed, DefaultDomain).value) ELSE None

\* create_ics_from_interview: attendees, start_utc, end_utc and join_url are
\* passed on as required_attendees, dtstart_utc, dtend_utc and url.  (The
\* closing parenthesis of this call stands at line 299 of the source, after
\* the text of generate_cancellation_ics.)
create_ics_from_interview(a, clock, fresh) ==
    build_ics_invite([a EXCEPT !.uid = InterviewUid(a.uid_seed)], clock, fresh)

----------------------------------------------------------------------------
(* generate_cancellation_ics *)

\* the message of the ICSValidationError the cancellation raises, "" if none
CancelValidation(a) ==
    IF ~Truthy(a.uid) THEN "UID is required to cancel an invite" ELSE ""

\* a default of 0, the sequence number of the invite itself
SequenceDefaultZero(a) == IF IsNone(a.sequence) THEN 0 ELSE Val(a.sequence)

\* sequence: int = 1
Sequence(a) == IF IsNone(a.sequence) THEN 1 ELSE Val(a.sequence)

\* the cancellation leaving the optional attendees out
CancelAttendeesRequiredOnly(a) ==
    AttendeeLines(OrEmpty(a.required_attendees), "REQ-PARTICIPANT", << >>)

\* the attendee lines of the cancellation
CancelAttendees(a) ==
    AttendeeLines(OrEmpty(a.required_attendees), "REQ-PARTICIPANT", << >>)
        \o AttendeeLines(OrEmpty(a.optional_attendees), "OPT-PARTICIPANT", << >>)

CancelLines(a, dtstamp, dtstart, dtend) ==
    << <<"BEGIN:VCALENDAR">>,
       <<"PRODID:-//PowerDash HR//Interview Scheduler//EN">>,
       <<"VERSION:2.0">>,
       <<"CALSCALE:GREGORIAN">>,
       <<"METHOD:CANCEL">>,
       <<"BEGIN:VEVENT">>,
       <<"UID:">> \o Format(a.uid),
       <<"SEQUENCE:">> \o IntToStr(Sequence(a)),
       <<"DTSTAMP:">> \o dtstamp,
       <<"DTSTART:">> \o dtstart,
       <<"DTEND:">> \o dtend,
       <<"SUMMARY:">> \o _escape_ics(a.summary),
       <<"DESCRIPTION:">> \o Description(a),
       <<"LOCATION:">> \o _escape_ics(Some(OrEmpty(a.location))),
       <<"STATUS:CANCELLED">>,
       OrganizerLine(a) >>
    \o CancelAttendees(a)
    \o UrlLines(a)
    \o << <<"END:VEVENT">>, <<"END:VCALENDAR">> >>

\* generate_cancellation_ics(**a) when the clock reads clock
generate_cancellation_ics(a, clock) ==
    IF CancelValidation(a) # "" THEN Raise("ICSValidationError", CancelValidation(a))
    ELSE IF _format_dt(a.dtstart_utc).raised # ""
         THEN Raise(_format_dt(a.dtstart_utc).raised, "")
    ELSE IF _format_dt(a.dtend_utc).raised # ""
         THEN Raise(_format_dt(a.dtend_utc).raised, "")
    ELSE Return(CancelLines(a, _format_dt(Some(clock)).value,
                            _format_dt(a.dtstart_utc).value,
                            _format_dt(a.dtend_utc).value))

----------------------------------------------------------------------------
(* The calls.  A call is chosen (pc = "call"), then runs to its return or  *)
(* its exception (pc = "done").                                            *)

NoResult == [status |-> "pending"]

NoCall == [op |-> "none"]

\* the values uuid.uuid4() may give
UUIDs ==
    { <<"1b4e28ba-2fa1-4d3b-a3f5-ef19b5a7633b">>,
      <<"6fa459ea-ee8a-4ca4-894e-db77e160355e">> }

Returned(r) ==
    /\ pc = "call"
    /\ pc' = "done"
    /\ result' = r
    /\ UNCHANGED <<op, args, now, prev>>

Call_escape_ics ==
    /\ op = "_escape_ics"
    /\ Returned([status |-> "ok", value |-> _escape_ics(args.text)])

Call_stable_uid ==
    /\ op = "stable_uid"
    /\ LET r == stable_uid(args.seed, args.domain)
       IN  Returned([status |-> IF r.raised = "" THEN "ok" ELSE r.raised,
                     message |-> r.message, value |-> r.value])

Call_build_ics_invite ==
    /\ op = "build_ics_invite"
    /\ \E fresh \in UUIDs : Returned(build_ics_invite(args, now, fresh))

Call_create_ics_from_interview ==
    /\ op = "create_ics_from_interview"
    /\ \E fresh \in UUIDs : Returned(create_ics_from_interview(args, now, fresh))

Call_generate_cancellation_ics ==
    /\ op = "generate_cancellation_ics"
    /\ Returned(generate_cancellation_ics(args, now))

----------------------------------------------------------------------------
(* The arguments the calls are checked on *)

\* the longest text given to _escape_ics
MaxLen == 3

EscapeAlphabet == {BS, ";", ",", LF, "n"}

EscapeArgs == { [text |-> t] : t \in {None} \cup { Some(s) : s \in Strings(EscapeAlphabet, MaxLen) } }

\* the longest seed given to stable_uid
MaxSeed == 2

Seeds == {None} \cup { Some(s) : s \in Strings({"i", "v", "1", "-"}, MaxSeed) }

StableUidArgs == { [seed |-> s, domain |-> d] : s \in Seeds, d \in {DefaultDomain, <<"example.org">>} }

T0900 == DateTime(1, 9, 0, 0, Some(0))

Starts == {None, Some(DateTime(1, 10, 0, 0, None))}

Ends == {None, Some(DateTime(2, 0, 30, 0, Some(1)))}

OrganizerEmails == {None, Some(<< >>), Some(<<"hr@x.com">>)}

OrganizerNames == {None, Some(<<"Pat", ",", " ", "HR">>)}

Summaries == {None, Some(<< >>), Some(<<"Interview", ";", LF, "onsite">>)}

Descriptions == {None, Some(<<" ", "Round 1", BS, CR, LF>>)}

Locations == {Some(<< >>), Some(<<"Room 1", ",", "HQ">>)}

Urls == {Some(<< >>), Some(<<"https://meet.x/1", ";", "p", " ">>)}

Uids ==
    { None, Some(<< >>), Some(<<"evt-1@x.com">>),
      Some(<<"evt-1@x.com", CR, LF, "BEGIN:VEVENT">>) }

UidSeeds == {None, Some(<< >>), Some(<<"i", "v", "-", "1">>)}

Sequences == {None, Some(0), Some(2)}

\* (email, name) pairs
Bea == <<Some(<<" ", "b@x.com", " ">>), Some(<<"Bea", ";", "B">>)>>

Ghost == <<Some(<<" ", " ">>), Some(<<"Ghost">>)>>

Cy == <<Some(<<"c@x.com">>), Some(<<" ">>)>>

Dee == <<Some(<<"d@x.com">>), None>>

Nobody == <<None, None>>

\* (required_attendees, optional_attendees)
AttendeeLists ==
    { <<None, None>>,
      <<Some(<< >>), Some(<<Dee>>)>>,
      <<Some(<<Bea, Ghost, Cy>>), Some(<<Nobody, Dee>>)>> }

BuilderArgs(uids, seeds, seqs) ==
    { [organizer_email |-> oe, organizer_name |-> on,
       required_attendees |-> at[1], optional_attendees |-> at[2],
       summary |-> su, description |-> de, dtstart_utc |-> st, dtend_utc |-> en,
       location |-> lo, url |-> ur, uid |-> ui, uid_seed |-> se, sequence |-> sq] :
         oe \in OrganizerEmails, on \in OrganizerNames, at \in AttendeeLists,
         su \in Summaries, de \in Descriptions, st \in Starts, en \in Ends,
         lo \in Locations, ur \in Urls, ui \in uids, se \in seeds, sq \in seqs }

ArgsOf(o) ==
    CASE o = "_escape_ics" -> EscapeArgs
      [] o = "stable_uid" -> StableUidArgs
      [] o = "build_ics_invite" -> BuilderArgs(Uids, {None}, {None})
      [] o = "create_ics_from_interview" -> BuilderArgs({None}, UidSeeds, {None})
      [] o = "generate_cancellation_ics" -> BuilderArgs(Uids, {None}, Sequences)

Ops ==
    { "_escape_ics", "stable_uid", "build_ics_invite", "create_ics_from_interview",
      "generate_cancellation_ics" }

----------------------------------------------------------------------------
(* Spec: one call of one function on arguments drawn at the start *)

Init ==
    /\ pc = "call"
    /\ op \in Ops
    /\ args \in ArgsOf(op)
    /\ now = T0900
    /\ result = NoResult
    /\ prev = NoCall

Next ==
    \/ Call_escape_ics
    \/ Call_stable_uid
    \/ Call_build_ics_invite
    \/ Call_create_ics_from_interview
    \/ Call_generate_cancellation_ics

Spec == Init /\ [][Next]_vars

----------------------------------------------------------------------------
(* Reading a document back *)

\* where the CRLF pairs of a text begin
Terminators(s) == { i \in 1..(Len(s) - 1) : s[i] = CR /\ s[i + 1] = LF }

\* the k-th smallest member of a set of numbers
Kth(S, k) == CHOOSE x \in S : Cardinality({ y \in S : y < x }) = k - 1

\* the lines of a text, each ended by CRLF; what follows the last CRLF, if
\* anything, is a last line without a terminator
DocLines(bytes) ==
    LET T     == Terminators(bytes)
        n     == Cardinality(T)
        from(k) == IF k = 1 THEN 1 ELSE Kth(T, k - 1) + 2
        ended == [k \in 1..n |-> SubSeq(bytes, from(k), Kth(T, k) - 1)]
    IN  IF from(n + 1) <= Len(bytes)
        THEN ended \o <<SubSeq(bytes, from(n + 1), Len(bytes))>>
        ELSE ended

EndsWithCRLF(bytes) ==
    Len(bytes) >= 2 /\ SubSeq(bytes, Len(bytes) - 1, Len(bytes)) = CRLF

\* the lines of ls that start with the symbol key
LinesOf(ls, key) == SelectSeq(ls, LAMBDA l : l # << >> /\ Head(l) = key)

\* the lines of ls equal to the one-symbol line key
LinesEqual(ls, key) == SelectSeq(ls, LAMBDA l : l = <<key>>)

Done(o) == pc = "done" /\ op = o

Built(o) == Done(o) /\ result.status = "ok"

----------------------------------------------------------------------------
(* Claims checked under Spec *)

RECURSIVE Unescape(_)
\* reads an escaped text back: a backslash and the character after it are
\* one character of the original; a semicolon, comma or line feed that no
\* backslash escapes, or a backslash that escapes nothing, reads as "?"
Unescape(s) ==
    IF s = << >> THEN << >>
    ELSE IF Head(s) = BS
         THEN IF Len(s) >= 2 /\ s[2] \in {BS, ";", ",", "n"}
              THEN <<IF s[2] = "n" THEN LF ELSE s[2]>> \o Unescape(SubSeq(s, 3, Len(s)))
              ELSE <<"?">>
    ELSE IF Head(s) \in {";", ",", LF} THEN <<"?">> \o Unescape(Tail(s))
    ELSE <<Head(s)>> \o Unescape(Tail(s))

\* C9: the output of _escape_ics holds no line feed, every semicolon and
\* comma in it follows a backslash, it reads back (escape by escape) as the
\* input, so no semicolon, comma or backslash in it is unescaped, and it
\* holds two backslashes per input backslash plus one per input semicolon,
\* comma and line feed, so no introduced backslash is doubled; None and the
\* empty text give the empty text.
C9_EscapeLeavesNothingRaw ==
    Done("_escape_ics") =>
        LET in  == OrEmpty(args.text)
            out == result.value
        IN  /\ ~Truthy(args.text) => out = << >>
            /\ Count(out, LF) = 0
            /\ \A i \in 1..Len(out) : out[i] \in {";", ","} => i > 1 /\ out[i - 1] = BS
            /\ Unescape(out) = in
            /\ Count(out, BS) =
                   2 * Count(in, BS) + Count(in, ";") + Count(in, ",") + Count(in, LF)

C9_Witness ==
    /\ Done("_escape_ics")
    /\ args.text = Some(<<BS, ";", LF>>)
    /\ result.value = <<BS, BS, BS, ";", BS, "n">>

\* C2: build_ics_invite with an empty organizer email, an empty summary or a
\* missing start or end raises ICSValidationError and returns no bytes,
\* whatever the other arguments are.
C2_InviteRejectsMissingFields ==
    (/\ Done("build_ics_invite")
     /\ \/ ~Truthy(args.organizer_email)
        \/ ~Truthy(args.summary)
        \/ IsNone(args.dtstart_utc)
        \/ IsNone(args.dtend_utc))
    => /\ result.status = "ICSValidationError"
       /\ result.lines = << >>
       /\ result.bytes = << >>

C2_Witness ==
    /\ Done("build_ics_invite")
    /\ Truthy(args.organizer_email)
    /\ args.summary = Some(<< >>)
    /\ ~IsNone(args.dtstart_utc) /\ ~IsNone(args.dtend_utc)
    /\ Truthy(args.uid) /\ Truthy(args.required_attendees)
    /\ result.status = "ICSValidationError"
    /\ result.message = "Summary is required"
    /\ result.bytes = << >>

\* C3: generate_cancellation_ics with an empty identifier (None or "")
\* raises ICSValidationError and emits nothing, and the one UID line of
\* every cancellation document is "UID:" followed by the uid argument.
C3_CancelUidLineIsArgument ==
    Done("generate_cancellation_ics") =>
        /\ ~Truthy(args.uid) =>
               result.status = "ICSValidationError" /\ result.bytes = << >>
        /\ result.status = "ok" =>
               LinesOf(DocLines(result.bytes), "UID:") = << <<"UID:">> \o Val(args.uid) >>

\* C4: the document of build_ics_invite starts with the line BEGIN:VCALENDAR,
\* ends with the line END:VCALENDAR, holds exactly one BEGIN:VEVENT line and
\* exactly one END:VEVENT line, and every line ends with CRLF.
C4_InviteWellFormed ==
    Built("build_ics_invite") =>
        LET ls == DocLines(result.bytes)
        IN  /\ EndsWithCRLF(result.bytes)
            /\ ls # << >>
            /\ Head(ls) = <<"BEGIN:VCALENDAR">>
            /\ ls[Len(ls)] = <<"END:VCALENDAR">>
            /\ Len(LinesEqual(ls, "BEGIN:VEVENT")) = 1
            /\ Len(LinesEqual(ls, "END:VEVENT")) = 1

\* C5: the UID line of an invite carries the uid argument when one is
\* passed, and otherwise a newly generated identifier that is not empty and
\* holds "@"; in no case is the identifier of the UID line empty.
C5_InviteUidIsArgumentOrFresh ==
    Built("build_ics_invite") =>
        LET ls == LinesOf(DocLines(result.bytes), "UID:")
        IN  /\ Len(ls) = 1
            /\ Tail(ls[1]) # << >>
            /\ ~IsNone(args.uid) => Tail(ls[1]) = Val(args.uid)
            /\ IsNone(args.uid) => \E i \in 2..Len(ls[1]) : ls[1][i] = "@"

\* the conditions C8 lists for the validation error, for each builder
MissingRequired ==
    IF op = "build_ics_invite"
    THEN \/ ~Truthy(args.organizer_email)
         \/ ~Truthy(args.summary)
         \/ IsNone(args.dtstart_utc)
         \/ IsNone(args.dtend_utc)
    ELSE ~Truthy(args.uid)

\* C8: a builder ends in its document or in ICSValidationError and in no
\* other failure; the error arises only from the listed conditions, and
\* every other input gives a document.
C8_OnlyValidationErrors ==
    (Done("build_ics_invite") \/ Done("generate_cancellation_ics")) =>
        /\ result.status \in {"ok", "ICSValidationError"}
        /\ result.status = "ICSValidationError" => MissingRequired
        /\ ~MissingRequired => result.status = "ok" /\ result.bytes # << >>

\* the name the spec gives an attendee: the name, or the email when the name
\* is absent or blank
DisplayName(name, email) ==
    IF Truthy(name) /\ Strip(Val(name)) # << >> THEN Val(name) ELSE email

RECURSIVE ClaimedAttendeeLines(_, _)
\* the ATTENDEE lines C10 describes for one list
ClaimedAttendeeLines(attendees, role) ==
    IF attendees = << >> THEN << >>
    ELSE LET email == Strip(OrEmpty(Head(attendees)[1]))
             rest  == ClaimedAttendeeLines(Tail(attendees), role)
         IN  IF email = << >> THEN rest
             ELSE << <<"ATTENDEE;CN=">>
                      \o _escape_ics(Some(DisplayName(Head(attendees)[2], email)))
                      \o <<";ROLE=", role, ";PARTSTAT=NEEDS-ACTION", ";RSVP=TRUE", ":mailto:">>
                      \o email >> \o rest

\* C10: the ATTENDEE lines of an invite are one line per required attendee
\* with a non-empty trimmed email, in order, then one per such optional
\* attendee, each with its role, PARTSTAT=NEEDS-ACTION and RSVP=TRUE, and
\* with CN the name, or the email when the name is absent or blank.
C10_AttendeeLines ==
    Built("build_ics_invite") =>
        LinesOf(DocLines(result.bytes), "ATTENDEE;CN=") =
            ClaimedAttendeeLines(OrEmpty(args.required_attendees), "REQ-PARTICIPANT")
                \o ClaimedAttendeeLines(OrEmpty(args.optional_attendees), "OPT-PARTICIPANT")

----------------------------------------------------------------------------
(* Calls in sequence: the caller calls again, and time passes *)

\* the last second the clock reaches
MaxClock == 2

\* time passes before the call that was chosen runs
Tick ==
    /\ pc = "call"
    /\ now.second < MaxClock
    /\ now' = [now EXCEPT !.second = @ + 1]
    /\ UNCHANGED <<pc, op, args, result, prev>>

\* the next call; the one that just returned is remembered as prev
Invoke(o, a) ==
    /\ pc = "done"
    /\ pc' = "call"
    /\ op' = o
    /\ args' = a
    /\ result' = NoResult
    /\ prev' = [op |-> op, args |-> args, now |-> now, result |-> result]  \* now: when it ran
    /\ UNCHANGED now

Interview ==
    [organizer_email |-> Some(<<"hr@x.com">>), organizer_name |-> Some(<<"Pat">>),
     required_attendees |-> Some(<<Bea, Ghost>>), optional_attendees |-> Some(<<Dee>>),
     summary |-> Some(<<"Interview">>), description |-> Some(<<"Round 1">>),
     dtstart_utc |-> Some(DateTime(2, 10, 0, 0, None)),
     dtend_utc |-> Some(DateTime(2, 11, 0, 0, None)),
     location |-> Some(<< >>), url |-> Some(<< >>), uid |-> None, uid_seed |-> None,
     sequence |-> None]

----------------------------------------------------------------------------
(* SpecRetry: the same interview processed again *)

RetryOps == {"stable_uid", "create_ics_from_interview"}

RetrySeeds == {None, Some(<< >>), Some(<<"i", "v", "-", "1">>), Some(<<"i", "v", "-", "2">>)}

RetryArgs(o) ==
    IF o = "stable_uid"
    THEN { [seed |-> s, domain |-> d] : s \in RetrySeeds, d \in {DefaultDomain, <<"example.org">>} }
    ELSE { [Interview EXCEPT !.uid_seed = s, !.summary = su, !.organizer_email = oe] :
             s \in RetrySeeds,
             su \in {Some(<<"Interview">>), Some(<<"Interview", " ", "2">>)},
             oe \in {Some(<<"hr@x.com">>), Some(<<"hr@x.com", CR, LF, "UID:", "0@x.com">>)} }

InitRetry ==
    /\ pc = "call"
    /\ op \in RetryOps
    /\ args \in RetryArgs(op)
    /\ now = T0900
    /\ result = NoResult
    /\ prev = NoCall

Retry == \E o \in RetryOps : \E a \in RetryArgs(o) : Invoke(o, a)

NextRetry ==
    \/ Call_stable_uid
    \/ Call_create_ics_from_interview
    \/ Retry
    \/ Tick

SpecRetry == InitRetry /\ [][NextRetry]_vars

\* the UID line of a document: its first line that starts with UID:
UidLine(bytes) == Head(LinesOf(DocLines(bytes), "UID:"))

\* C1: two calls of stable_uid with the same non-empty seed and the same
\* domain return the same identifier, the digest of the seed, "@" and the
\* domain; two documents of create_ics_from_interview with the same
\* non-empty uid_seed have the same UID line, that identifier under the
\* default domain, whenever they were built.
C1_SameSeedSameUid ==
    /\ (/\ Done("stable_uid") /\ prev.op = "stable_uid"
        /\ Truthy(args.seed) /\ args = prev.args)
       => /\ result.status = "ok"
          /\ result.value = prev.result.value
          /\ result.value = Md5HexDigest(Val(args.seed)) \o <<"@">> \o args.domain
    /\ (/\ Built("create_ics_from_interview") /\ prev.op = "create_ics_from_interview"
        /\ prev.result.status = "ok"
        /\ Truthy(args.uid_seed) /\ args.uid_seed = prev.args.uid_seed)
       => /\ UidLine(result.bytes) = UidLine(prev.result.bytes)
          /\ UidLine(result.bytes)
                = <<"UID:">> \o Md5HexDigest(Val(args.uid_seed)) \o <<"@">> \o DefaultDomain

C1_Witness ==
    /\ Built("create_ics_from_interview") /\ prev.op = "create_ics_from_interview"
    /\ prev.result.status = "ok"
    /\ Truthy(args.uid_seed) /\ args.uid_seed = prev.args.uid_seed
    /\ args.summary # prev.args.summary
    /\ args.organizer_email # prev.args.organizer_email
    /\ LinesOf(DocLines(result.bytes), "DTSTAMP:")
           # LinesOf(DocLines(prev.result.bytes), "DTSTAMP:")
    /\ UidLine(result.bytes) = UidLine(prev.result.bytes)

----------------------------------------------------------------------------
(* SpecCancel: invites and the cancellations that follow them *)

\* the largest sequence number passed to generate_cancellation_ics
MaxSeq == 2

CancelOps == {"build_ics_invite", "generate_cancellation_ics"}

CancelUids ==
    { Some(<<"evt-1@x.com">>), Some(<<"evt-2@x.com">>),
      Some(<<"evt-3@x.com", CR, LF, "SEQUENCE:", "0", CR, LF, "TRANSP:OPAQUE">>) }

CancelUrls == {Some(<< >>), Some(<<"https://meet.x/1">>)}

CancelArgs(o) ==
    IF o = "build_ics_invite"
    THEN { [Interview EXCEPT !.uid = u, !.url = l] : u \in CancelUids, l \in CancelUrls }
    ELSE { [Interview EXCEPT !.uid = u, !.url = l, !.sequence = q] :
             u \in CancelUids, l \in CancelUrls,
             q \in {None} \cup { Some(n) : n \in -1..MaxSeq } }

InitCancel ==
    /\ pc = "call"
    /\ op \in CancelOps
    /\ args \in CancelArgs(op)
    /\ now = T0900
    /\ result = NoResult
    /\ prev = NoCall

Supersede == \E o \in CancelOps : \E a \in CancelArgs(o) : Invoke(o, a)

NextCancel ==
    \/ Call_build_ics_invite
    \/ Call_generate_cancellation_ics
    \/ Supersede
    \/ Tick

SpecCancel == InitCancel /\ [][NextCancel]_vars

\* the sequence number of a document: that of the SEQUENCE line its builder
\* wrote, 0 when it wrote none
SequenceNumber(lines) ==
    LET ls == LinesOf(lines, "SEQUENCE:")
    IN  IF ls = << >> THEN 0
        ELSE CHOOSE n \in -1..(MaxSeq + 1) : Tail(Head(ls)) = IntToStr(n)

\* this call built a cancellation and the call before it built a document
\* for the same identifier
Supersedes ==
    /\ Built("generate_cancellation_ics")
    /\ prev.op \in CancelOps
    /\ prev.result.status = "ok"
    /\ prev.args.uid = args.uid

CancelHead ==
    << <<"BEGIN:VCALENDAR">>, <<"PRODID:-//PowerDash HR//Interview Scheduler//EN">>,
       <<"VERSION:2.0">>, <<"CALSCALE:GREGORIAN">>, <<"METHOD:CANCEL">>,
       <<"BEGIN:VEVENT">> >>

WithoutFlags(l) == SelectSeq(l, LAMBDA c : c \notin {";PARTSTAT=NEEDS-ACTION", ";RSVP=TRUE"})

\* the lines C7 lists as different in the two documents
Differing ==
    { <<"METHOD:REQUEST">>, <<"METHOD:CANCEL">>, <<"STATUS:CONFIRMED">>,
      <<"STATUS:CANCELLED">> } \cup { VAlarm[i] : i \in 1..Len(VAlarm) }

\* the lines a builder wrote without those of D and the SEQUENCE line, the
\* ATTENDEE lines without their flags
Shared(ls, D) ==
    LET kept == SelectSeq(ls, LAMBDA l : l \notin D /\ Head(l) # "SEQUENCE:")
    IN  [i \in 1..Len(kept) |-> WithoutFlags(kept[i])]

\* the shape the cancellation has of its own
CancelShape(ls) ==
    /\ Len(LinesEqual(ls, "METHOD:CANCEL")) = 1
    /\ Len(LinesEqual(ls, "STATUS:CANCELLED")) = 1
    /\ Len(LinesOf(ls, "SEQUENCE:")) = 1
    /\ LinesEqual(ls, "METHOD:REQUEST") = << >>
    /\ LinesEqual(ls, "STATUS:CONFIRMED") = << >>
    /\ LinesEqual(ls, "BEGIN:VALARM") = << >>
    /\ \A i \in 1..Len(ls) : WithoutFlags(ls[i]) = ls[i]

\* the shape the invite has of its own
InviteShape(ls) ==
    /\ Len(LinesEqual(ls, "METHOD:REQUEST")) = 1
    /\ Len(LinesEqual(ls, "STATUS:CONFIRMED")) = 1
    /\ LinesOf(ls, "SEQUENCE:") = << >>
    /\ SubSeq(ls, Len(ls) - 6, Len(ls) - 2) = VAlarm
    /\ \A i \in 1..Len(ls) :
           Head(ls[i]) = "ATTENDEE;CN=" => Len(ls[i]) = Len(WithoutFlags(ls[i])) + 2

\* this call built a cancellation from the arguments the call before it
\* built an invite from
SameInputs ==
    /\ Built("generate_cancellation_ics")
    /\ prev.op = "build_ics_invite"
    /\ prev.result.status = "ok"
    /\ [args EXCEPT !.sequence = None] = prev.args

====
